---- MODULE Spec2Model ----
(***************************************************************************)
(* Hour-by-hour priority dispatch of the microgrid simulator               *)
(* (Microgrid_simulation.py): Battery, HydrogenStore and                   *)
(* MicrogridSimulator.run.  Python floats are modelled as exact rationals  *)
(* <<numerator, denominator>> in lowest terms with a positive denominator. *)
(***************************************************************************)
EXTENDS Integers, Sequences, FiniteSets, TLC

\* ------------------------------------------------------------------------
\* Exact rational arithmetic standing in for float arithmetic
\* ------------------------------------------------------------------------
Abs(n) == IF n < 0 THEN -n ELSE n

RECURSIVE GCD(_, _)
GCD(a, b) == IF b = 0 THEN a ELSE GCD(b, a % b)

Norm(n, d) ==
    LET g == GCD(Abs(n), Abs(d))
        s == IF d < 0 THEN -1 ELSE 1
    IN  <<s * (n \div g), s * (d \div g)>>

Q(n, d) == Norm(n, d)

Zero == <<0, 1>>

Neg(x) == <<-x[1], x[2]>>

Add(x, y) ==
    LET g == GCD(x[2], y[2])
    IN  Norm(x[1] * (y[2] \div g) + y[1] * (x[2] \div g), (x[2] \div g) * y[2])

Sub(x, y) == Add(x, Neg(y))

Mul(x, y) ==
    LET g1 == GCD(Abs(x[1]), y[2])
        g2 == GCD(Abs(y[1]), x[2])
    IN  Norm((x[1] \div g1) * (y[1] \div g2), (x[2] \div g2) * (y[2] \div g1))

Inv(x) == IF x[1] > 0 THEN <<x[2], x[1]>> ELSE <<-x[2], -x[1]>>

Div(x, y) == Mul(x, Inv(y))

Lt(x, y) ==
    LET g == GCD(x[2], y[2])
    IN  x[1] * (y[2] \div g) < y[1] * (x[2] \div g)

Le(x, y) == ~Lt(y, x)

Gt(x, y) == Lt(y, x)

Ge(x, y) == ~Lt(x, y)

\* Python's min(a, b) returns a unless b < a; max(a, b) returns a unless b > a.
min(a, b) == IF Lt(b, a) THEN b ELSE a

max(a, b) == IF Gt(b, a) THEN b ELSE a

ISqrt(k) == CHOOSE s \in 0..k : s * s = k

\* np.sqrt, exact on the perfect-square ratios used as round-trip efficiencies
sqrt(x) == <<ISqrt(x[1]), ISqrt(x[2])>>

\* ------------------------------------------------------------------------
\* Configuration
\* ------------------------------------------------------------------------
None == <<>>

\* run(): dt = 1.0 and the devices' default dt_h = 1.0
dt == Q(1, 1)

\* run(): EPS = 1e-6
EPS == Q(1, 1000000)

\* a floor of 1 in place of 0.1
COP_FLOOR_one == Q(1, 1)

\* run(): max(row[cop_col], 0.1)
COP_FLOOR == Q(1, 10)

HeatPumpType == {"COP_LV", "COP_JH", "COP_JV"}

\* SystemParameters with ComponentLimits flattened into limits
BaseParams ==
    [ eta_inv |-> Q(1, 1), eta_bat_roundtrip |-> Q(1, 1),
      eta_electrolyser |-> Q(1, 1), eta_fuel_cell |-> Q(1, 1),
      battery_capacity_kwh |-> Q(10, 1), h2_capacity_kwh |-> Q(10, 1),
      soc_bat_init |-> Q(0, 1), h2_init_kwh |-> None,
      heat_pump_type |-> "COP_JH",
      limits |-> [ p_bat_charge |-> Q(5, 1), p_bat_discharge |-> Q(5, 1),
                   p_electrolyser |-> Q(10, 1), p_fuel_cell |-> Q(10, 1) ] ]

\* SystemParameters.__post_init__
post_init(sp) ==
    IF sp.h2_init_kwh = None
    THEN [sp EXCEPT !.h2_init_kwh = Mul(Q(1, 2), sp.h2_capacity_kwh)]
    ELSE sp

charge_eff(sp) == sqrt(sp.eta_bat_roundtrip)

discharge_eff(sp) == sqrt(sp.eta_bat_roundtrip)

\* Configurations inside the documented domain
ValidParams ==
    { BaseParams,
      [BaseParams EXCEPT !.limits.p_electrolyser = Q(0, 1)],
      [BaseParams EXCEPT !.eta_inv = Q(1, 2), !.limits.p_electrolyser = Q(0, 1)],
      [BaseParams EXCEPT !.h2_init_kwh = Q(0, 1), !.heat_pump_type = "COP_LV"],
      [BaseParams EXCEPT !.soc_bat_init = Q(1, 2), !.limits.p_bat_charge = Q(20, 1),
                         !.limits.p_bat_discharge = Q(20, 1)],
      [BaseParams EXCEPT !.eta_inv = Q(1, 2), !.eta_bat_roundtrip = Q(1, 4),
                         !.eta_electrolyser = Q(1, 2), !.eta_fuel_cell = Q(1, 2),
                         !.soc_bat_init = Q(1, 2)],
      [BaseParams EXCEPT !.eta_bat_roundtrip = Q(1, 4), !.h2_init_kwh = Q(0, 1),
                         !.eta_fuel_cell = Q(1, 2)],
      [BaseParams EXCEPT !.soc_bat_init = Q(1, 1), !.h2_init_kwh = Q(10, 1),
                         !.heat_pump_type = "COP_JV", !.eta_fuel_cell = Q(1, 2),
                         !.limits.p_fuel_cell = Q(2, 1)],
      [BaseParams EXCEPT !.battery_capacity_kwh = Q(0, 1), !.h2_capacity_kwh = Q(0, 1),
                         !.h2_init_kwh = Q(0, 1)] }

\* Configurations outside the documented domain, one field at a time
InvalidParams ==
    { [BaseParams EXCEPT !.eta_inv = Q(0, 1)],
      [BaseParams EXCEPT !.eta_electrolyser = Q(-1, 2)],
      [BaseParams EXCEPT !.eta_fuel_cell = Q(-1, 2)],
      [BaseParams EXCEPT !.battery_capacity_kwh = Q(-10, 1)],
      [BaseParams EXCEPT !.h2_capacity_kwh = Q(-10, 1), !.h2_init_kwh = Q(0, 1)],
      [BaseParams EXCEPT !.limits.p_bat_charge = Q(-5, 1)],
      [BaseParams EXCEPT !.limits.p_fuel_cell = Q(-5, 1)],
      [BaseParams EXCEPT !.soc_bat_init = Q(3, 2)],
      [BaseParams EXCEPT !.soc_bat_init = Q(-1, 2)],
      [BaseParams EXCEPT !.h2_init_kwh = Q(20, 1)],
      [BaseParams EXCEPT !.h2_init_kwh = Q(-1, 1)] }

\* ------------------------------------------------------------------------
\* Hourly input rows (the data frame's columns)
\* ------------------------------------------------------------------------
Row(pv, plug, space, dhw) ==
    [ Solproduktion |-> pv, Elforbrug |-> plug, Varmeforbrug |-> space,
      dhw |-> dhw, COP_LV |-> Q(0, 1), COP_JH |-> Q(2, 1), COP_JV |-> Q(4, 1) ]

\* A row whose COP columns are negative, below the floor and exactly at it
LowCopRow ==
    [ Solproduktion |-> Q(3, 1), Elforbrug |-> Zero, Varmeforbrug |-> Q(1, 10),
      dhw |-> Zero, COP_LV |-> Q(-1, 1), COP_JH |-> Q(1, 20), COP_JV |-> Q(1, 10) ]

\* A row without the plug-load column
NoPlugRow ==
    [ Solproduktion |-> Q(10, 1), Varmeforbrug |-> Zero,
      dhw |-> Zero, COP_LV |-> Q(0, 1), COP_JH |-> Q(2, 1), COP_JV |-> Q(4, 1) ]

\* run(): the columns one pass of the loop reads with row[...]
RowColumns(params) ==
    {"Solproduktion", "Varmeforbrug", "dhw", params.heat_pump_type, "Elforbrug"}

\* row[...] raises KeyError for a column the row does not have
RaisesKeyError(params, row) == ~(RowColumns(params) \subseteq DOMAIN row)

Rows ==
    { Row(Q(10, 1), Q(2, 1), Zero, Zero),
      Row(Zero, Q(5, 1), Zero, Zero),
      Row(Q(10001, 1000), Zero, Zero, Zero),
      Row(Q(1, 2000000), Zero, Zero, Zero),
      Row(Zero, Q(1, 2000000), Zero, Zero),
      Row(Zero, Zero, Zero, Zero),
      Row(Q(4, 1), Zero, Q(1, 1), Q(1, 1)),
      Row(Zero, Q(30, 1), Zero, Zero),
      Row(Q(40, 1), Zero, Zero, Zero),
      LowCopRow, NoPlugRow }

MaxOps == 2

MaxHours == 3

\* ------------------------------------------------------------------------
\* Devices
\* ------------------------------------------------------------------------
Battery__init__(params) ==
    [ cap |-> params.battery_capacity_kwh,
      soc |-> Mul(params.soc_bat_init, params.battery_capacity_kwh),
      eta_c |-> charge_eff(params),
      eta_d |-> discharge_eff(params),
      p_charge_max |-> params.limits.p_bat_charge,
      p_discharge_max |-> params.limits.p_bat_discharge ]

\* charge with the headroom clamp dropped (e_actual = e_in)
charge_nocap(self, p_requested_kw, dt_h) ==
    LET p_ == min(p_requested_kw, self.p_charge_max)
        e_in == Mul(Mul(p_, dt_h), self.eta_c)
        e_actual == e_in
    IN  [ self |-> [self EXCEPT !.soc = Add(self.soc, e_actual)],
          ret |-> Div(e_actual, dt_h) ]

\* charge with the power-limit clamp dropped (p = p_requested_kw)
charge_nolimit(self, p_requested_kw, dt_h) ==
    LET p_ == p_requested_kw
        e_in == Mul(Mul(p_, dt_h), self.eta_c)
        space_left == Sub(self.cap, self.soc)
        e_actual == min(e_in, space_left)
    IN  [ self |-> [self EXCEPT !.soc = Add(self.soc, e_actual)],
          ret |-> Div(e_actual, dt_h) ]

charge(self, p_requested_kw, dt_h) ==
    LET p_ == min(p_requested_kw, self.p_charge_max)
        e_in == Mul(Mul(p_, dt_h), self.eta_c)
        space_left == Sub(self.cap, self.soc)
        e_actual == min(e_in, space_left)
    IN  [ self |-> [self EXCEPT !.soc = Add(self.soc, e_actual)],
          ret |-> Div(e_actual, dt_h) ]

\* discharge with the efficiency applied the wrong way (p * dt * eta_d)
discharge_mul(self, p_requested_kw, dt_h) ==
    LET p_ == min(p_requested_kw, self.p_discharge_max)
        e_out_request == Mul(Mul(p_, dt_h), self.eta_d)
        e_available == min(e_out_request, self.soc)
    IN  [ self |-> [self EXCEPT !.soc = Sub(self.soc, e_available)],
          ret |-> Div(Mul(e_available, self.eta_d), dt_h) ]

\* discharge with the clamp to the stored energy dropped
discharge_nosoc(self, p_requested_kw, dt_h) ==
    LET p_ == min(p_requested_kw, self.p_discharge_max)
        e_out_request == Div(Mul(p_, dt_h), self.eta_d)
        e_available == e_out_request
    IN  [ self |-> [self EXCEPT !.soc = Sub(self.soc, e_available)],
          ret |-> Div(Mul(e_available, self.eta_d), dt_h) ]

\* discharge with the power-limit clamp dropped (p = p_requested_kw)
discharge_nolimit(self, p_requested_kw, dt_h) ==
    LET p_ == p_requested_kw
        e_out_request == Div(Mul(p_, dt_h), self.eta_d)
        e_available == min(e_out_request, self.soc)
    IN  [ self |-> [self EXCEPT !.soc = Sub(self.soc, e_available)],
          ret |-> Div(Mul(e_available, self.eta_d), dt_h) ]

discharge(self, p_requested_kw, dt_h) ==
    LET p_ == min(p_requested_kw, self.p_discharge_max)
        e_out_request == Div(Mul(p_, dt_h), self.eta_d)
        e_available == min(e_out_request, self.soc)
    IN  [ self |-> [self EXCEPT !.soc = Sub(self.soc, e_available)],
          ret |-> Div(Mul(e_available, self.eta_d), dt_h) ]

HydrogenStore__init__(params) ==
    [ cap |-> params.h2_capacity_kwh,
      h2 |-> params.h2_init_kwh,
      eta_elec |-> params.eta_electrolyser,
      eta_fc |-> params.eta_fuel_cell,
      p_elec_max |-> params.limits.p_electrolyser,
      p_fc_max |-> params.limits.p_fuel_cell ]

\* electrolyse returning the clamped request instead of what was stored
electrolyse_retreq(self, p_kw, dt_h) ==
    LET p_ == min(p_kw, self.p_elec_max)
        e_h2 == Mul(Mul(p_, dt_h), self.eta_elec)
        space_left == Sub(self.cap, self.h2)
        e_actual == min(e_h2, space_left)
    IN  [ self |-> [self EXCEPT !.h2 = Add(self.h2, e_actual)],
          ret |-> p_ ]

\* electrolyse taking the energy out of the tank instead of adding it
electrolyse_drain(self, p_kw, dt_h) ==
    LET p_ == min(p_kw, self.p_elec_max)
        e_h2 == Mul(Mul(p_, dt_h), self.eta_elec)
        space_left == Sub(self.cap, self.h2)
        e_actual == min(e_h2, space_left)
    IN  [ self |-> [self EXCEPT !.h2 = Sub(self.h2, e_actual)],
          ret |-> Div(e_actual, Mul(self.eta_elec, dt_h)) ]

electrolyse(self, p_kw, dt_h) ==
    LET p_ == min(p_kw, self.p_elec_max)
        e_h2 == Mul(Mul(p_, dt_h), self.eta_elec)
        space_left == Sub(self.cap, self.h2)
        e_actual == min(e_h2, space_left)
    IN  [ self |-> [self EXCEPT !.h2 = Add(self.h2, e_actual)],
          ret |-> Div(e_actual, Mul(self.eta_elec, dt_h)) ]

\* fuel_cell with the waste-heat difference taken the wrong way round
fuel_cell_heatsign(self, p_kw, dt_h) ==
    LET p_ == min(p_kw, self.p_fc_max)
        e_h2_needed == Div(Mul(p_, dt_h), self.eta_fc)
        e_available == min(e_h2_needed, self.h2)
        p_ac == Div(Mul(e_available, self.eta_fc), dt_h)
        p_heat == Div(Sub(Mul(p_ac, dt_h), e_available), dt_h)
    IN  [ self |-> [self EXCEPT !.h2 = Sub(self.h2, e_available)],
          p_ac |-> p_ac, p_heat |-> p_heat ]

\* fuel_cell with the clamp to the stored hydrogen dropped
fuel_cell_nolevel(self, p_kw, dt_h) ==
    LET p_ == min(p_kw, self.p_fc_max)
        e_h2_needed == Div(Mul(p_, dt_h), self.eta_fc)
        e_available == e_h2_needed
        p_ac == Div(Mul(e_available, self.eta_fc), dt_h)
        p_heat == Div(Sub(e_available, Mul(p_ac, dt_h)), dt_h)
    IN  [ self |-> [self EXCEPT !.h2 = Sub(self.h2, e_available)],
          p_ac |-> p_ac, p_heat |-> p_heat ]

fuel_cell(self, p_kw, dt_h) ==
    LET p_ == min(p_kw, self.p_fc_max)
        e_h2_needed == Div(Mul(p_, dt_h), self.eta_fc)
        e_available == min(e_h2_needed, self.h2)
        p_ac == Div(Mul(e_available, self.eta_fc), dt_h)
        p_heat == Div(Sub(e_available, Mul(p_ac, dt_h)), dt_h)
    IN  [ self |-> [self EXCEPT !.h2 = Sub(self.h2, e_available)],
          p_ac |-> p_ac, p_heat |-> p_heat ]

\* ------------------------------------------------------------------------
\* Simulator
\* ------------------------------------------------------------------------
VARIABLES p, battery, h2, logs, calls, phase, annual_balance, kpi,
          df,     \* the rows of self.df the loop of run() has iterated so far
          twin,   \* a second simulator built from the same params
          ops     \* device operations called directly: request, states, result

vars == <<p, battery, h2, logs, calls, phase, annual_balance, kpi, df, twin, ops>>

\* run(): p_bat_ch = p_bat_disch = 0.0; p_elec = ... = 0.0; heat_from_fc_kw = 0.0
InitFlows_stale ==
    [ p_bat_ch |-> Zero, p_bat_disch |-> Q(1, 1), p_elec |-> Zero, p_fc_kw |-> Q(1, 1),
      p_grid_exp |-> Zero, p_grid_imp |-> Zero, heat_from_fc_kw |-> Zero ]

InitFlows ==
    [ p_bat_ch |-> Zero, p_bat_disch |-> Zero, p_elec |-> Zero, p_fc_kw |-> Zero,
      p_grid_exp |-> Zero, p_grid_imp |-> Zero, heat_from_fc_kw |-> Zero ]

\* the surplus branch undoing the electrolyser's update when it reports no export
SurplusExport_rollback(store, c, e, net_after_bat) ==
    [ battery |-> c.self,
      h2 |-> IF e = None \/ ~Gt(net_after_bat, EPS) THEN store ELSE e.self,
      calls |-> IF e = None THEN <<"charge">> ELSE <<"charge", "electrolyse">>,
      flows |-> [InitFlows EXCEPT
                   !.p_bat_ch = c.ret,
                   !.p_elec = IF e = None THEN InitFlows.p_elec ELSE e.ret,
                   !.p_grid_exp = IF Gt(net_after_bat, EPS) THEN net_after_bat
                                                            ELSE Zero] ]

\* run(): end of the surplus branch; c and e are what charge and electrolyse
\* returned (e is None when the electrolyser was not run)
SurplusExport(store, c, e, net_after_bat) ==
    [ battery |-> c.self,
      h2 |-> IF e = None THEN store ELSE e.self,
      calls |-> IF e = None THEN <<"charge">> ELSE <<"charge", "electrolyse">>,
      flows |-> [InitFlows EXCEPT
                   !.p_bat_ch = c.ret,
                   !.p_elec = IF e = None THEN InitFlows.p_elec ELSE e.ret,
                   !.p_grid_exp = IF Gt(net_after_bat, EPS) THEN net_after_bat
                                                            ELSE Zero] ]

\* run(): the surplus branch after the battery; net_after_bat = net_kw - p_bat_ch
SurplusElec(store, c, e, net_after_bat) ==
    IF e = None THEN SurplusExport(store, c, e, net_after_bat)
                ELSE SurplusExport(store, c, e, Sub(net_after_bat, e.ret))

SurplusAfterBat(store, c, net_after_bat) ==
    SurplusElec(store, c,
                IF Gt(net_after_bat, Q(1, 1000000))
                    THEN electrolyse(store, net_after_bat, dt) ELSE None,
                net_after_bat)

SurplusCharged(store, net_kw, c) == SurplusAfterBat(store, c, Sub(net_kw, c.ret))

\* run(): the surplus branch (net_kw >= 0)
SurplusBranch(bat, store, net_kw) == SurplusCharged(store, net_kw, charge(bat, net_kw, dt))

\* run(): end of the deficit branch; d and f are what discharge and fuel_cell
\* returned (f is None when the fuel cell was not run)
DeficitImport(store, d, f, deficit_after_bat) ==
    [ battery |-> d.self,
      h2 |-> IF f = None THEN store ELSE f.self,
      calls |-> IF f = None THEN <<"discharge">> ELSE <<"discharge", "fuel_cell">>,
      flows |-> [InitFlows EXCEPT
                   !.p_bat_disch = d.ret,
                   !.p_fc_kw = IF f = None THEN InitFlows.p_fc_kw ELSE f.p_ac,
                   !.heat_from_fc_kw = IF f = None THEN InitFlows.heat_from_fc_kw
                                                   ELSE f.p_heat,
                   !.p_grid_imp = IF Gt(deficit_after_bat, EPS) THEN deficit_after_bat
                                                                ELSE Zero] ]

DeficitFc(store, d, f, deficit_after_bat) ==
    IF f = None THEN DeficitImport(store, d, f, deficit_after_bat)
                ELSE DeficitImport(store, d, f, Sub(deficit_after_bat, f.p_ac))

DeficitAfterBat(store, d, deficit_after_bat) ==
    DeficitFc(store, d,
              IF Gt(deficit_after_bat, EPS) /\ Gt(store.h2, EPS)
                  THEN fuel_cell(store, deficit_after_bat, dt) ELSE None,
              deficit_after_bat)

DeficitDischarged(store, deficit_kw, d) == DeficitAfterBat(store, d, Sub(deficit_kw, d.ret))

DeficitOf(bat, store, deficit_kw) ==
    DeficitDischarged(store, deficit_kw, discharge(bat, deficit_kw, dt))

\* run(): the deficit branch (net_kw < 0)
DeficitBranch(bat, store, net_kw) == DeficitOf(bat, store, Neg(net_kw))

\* run(): 1) basic demands and PV of one row
Demand(params, row) ==
    LET pv_ac == Mul(row.Solproduktion, params.eta_inv)
        q_space == row.Varmeforbrug
        q_dhw == row.dhw
        heat_req == Add(q_space, q_dhw)
        cop_hp == max(row[params.heat_pump_type], COP_FLOOR)
        hp_el_kwh == Div(heat_req, cop_hp)
        hp_el_kw == Div(hp_el_kwh, dt)
        plug_kw == row.Elforbrug
    IN  [ pv_ac |-> pv_ac, heat_req |-> heat_req, hp_el_kw |-> hp_el_kw,
          load_kw |-> Add(plug_kw, hp_el_kw) ]

\* run(): 4) the log record of the hour, from the demands dm and the branch result b
LogRecord(dm, net_kw, b) ==
  [ battery |-> b.battery, h2 |-> b.h2, calls |-> b.calls,
    log |->
    [ pv_ac |-> dm.pv_ac, load |-> dm.load_kw, net_before |-> net_kw,
      p_bat_charge |-> b.flows.p_bat_ch,
      p_bat_discharge |-> b.flows.p_bat_disch,
      soc_bat |-> b.battery.soc,
      p_elec |-> b.flows.p_elec, p_fc |-> b.flows.p_fc_kw,
      h2_store |-> b.h2.h2,
      p_grid_export |-> b.flows.p_grid_exp,
      p_grid_import |-> b.flows.p_grid_imp,
      heat_pump_heat |-> dm.heat_req,
      heat_from_fc |-> Mul(b.flows.heat_from_fc_kw, dt),
      heat_total_demand |-> dm.heat_req,
      hp_electricity |-> dm.hp_el_kw ] ]

\* run(): the branch on the sign of net_kw, then the log record
DispatchNet(bat, store, dm, net_kw) ==
    LogRecord(dm, net_kw,
              IF Ge(net_kw, Zero) THEN SurplusBranch(bat, store, net_kw)
                                  ELSE DeficitBranch(bat, store, net_kw))

DispatchDemand(bat, store, dm) == DispatchNet(bat, store, dm, Sub(dm.pv_ac, dm.load_kw))

\* run(): one iteration of the loop over the rows, up to the log record
Dispatch(params, bat, store, row) == DispatchDemand(bat, store, Demand(params, row))

RECURSIVE SumCol(_, _)
SumCol(s, col) == IF s = <<>> THEN Zero ELSE Add(s[1][col], SumCol(Tail(s), col))

\* the classification with the 1e-6 tolerance of the dispatch in place of 1e-2
Classify_tol(bal) ==
    IF Le(bal, EPS) /\ Ge(bal, Neg(EPS)) THEN "Zero-energy"
    ELSE IF Gt(bal, Zero) THEN "Surplus" ELSE "Deficit"

\* np.isclose(annual_balance, 0, atol=1e-2): |a - 0| <= atol + rtol * |0|
Classify(bal) ==
    IF Le(bal, Q(1, 100)) /\ Ge(bal, Q(-1, 100)) THEN "Zero-energy"
    ELSE IF Gt(bal, Zero) THEN "Surplus" ELSE "Deficit"

InitWith(S) ==
    /\ p \in {post_init(sp) : sp \in S}
    /\ battery = None
    /\ h2 = None
    /\ logs = <<>>
    /\ calls = <<>>
    /\ phase = "new"
    /\ annual_balance = Zero
    /\ kpi = None
    /\ df = <<>>
    /\ twin = None
    /\ ops = <<>>

Init == InitWith(ValidParams)

InitAny == InitWith(ValidParams \cup InvalidParams)

\* MicrogridSimulator.__init__
Construct ==
    /\ phase = "new"
    /\ battery' = Battery__init__(p)
    /\ h2' = HydrogenStore__init__(p)
    /\ logs' = <<>>
    /\ phase' = "constructed"
    /\ UNCHANGED <<p, calls, annual_balance, kpi, df, twin, ops>>

\* MicrogridSimulator.__init__: the keys of self.logs
LogColumns ==
    { "pv_ac", "load", "net_before",
      "p_bat_charge", "p_bat_discharge", "soc_bat",
      "p_elec", "p_fc", "h2_store",
      "p_grid_export", "p_grid_import",
      "heat_pump_heat", "heat_from_fc",
      "heat_total_demand", "hp_electricity" }

\* a pass that puts its record in front of the log instead of at its end
RunHour_prepend(row) ==
    /\ phase = "constructed"
    /\ Len(df) < MaxHours
    /\ ~RaisesKeyError(p, row)
    /\ df' = Append(df, row)
    /\ \E r \in {Dispatch(p, battery, h2, row)} :
           /\ battery' = r.battery
           /\ h2' = r.h2
           /\ calls' = r.calls
           /\ logs' = <<r.log>> \o logs
    /\ UNCHANGED <<p, phase, annual_balance, kpi, twin, ops>>

\* run(): one pass of the loop body for the next row of the data frame
RunHour(row) ==
    /\ phase = "constructed"
    /\ Len(df) < MaxHours
    /\ ~RaisesKeyError(p, row)
    /\ df' = Append(df, row)
    /\ \E r \in {Dispatch(p, battery, h2, row)} :
           /\ battery' = r.battery
           /\ h2' = r.h2
           /\ calls' = r.calls
           /\ logs' = Append(logs, r.log)
    /\ UNCHANGED <<p, phase, annual_balance, kpi, twin, ops>>

\* a pass that swallows the KeyError and goes on to the next row
RunHourRaises_skip(row) ==
    /\ phase = "constructed"
    /\ Len(df) < MaxHours
    /\ RaisesKeyError(p, row)
    /\ df' = Append(df, row)
    /\ UNCHANGED <<p, battery, h2, logs, calls, phase, annual_balance, kpi, twin, ops>>

\* run(): a pass of the loop body in which row[...] raises; the exception
\* leaves run() before any device call or _log
RunHourRaises(row) ==
    /\ phase = "constructed"
    /\ Len(df) < MaxHours
    /\ RaisesKeyError(p, row)
    /\ df' = Append(df, row)
    /\ phase' = "raised"
    /\ UNCHANGED <<p, battery, h2, logs, calls, annual_balance, kpi, twin, ops>>

\* run(): wrap-up after the last row
WrapUp ==
    /\ phase = "constructed"
    /\ LET bal == Sub(SumCol(logs, "p_grid_export"), SumCol(logs, "p_grid_import"))
       IN  /\ annual_balance' = bal
           /\ kpi' = Classify(bal)
    /\ phase' = "done"
    /\ UNCHANGED <<p, battery, h2, logs, calls, df, twin, ops>>

\* A second MicrogridSimulator(params, df) built next to the first one
ConstructTwin_shared ==
    /\ twin = None
    /\ phase = "constructed"
    /\ twin' = [battery |-> battery, h2 |-> h2, logs |-> <<>>]
    /\ UNCHANGED <<p, battery, h2, logs, calls, phase, annual_balance, kpi, df, ops>>

\* MicrogridSimulator.__init__ of the second simulator: its own Battery and
\* HydrogenStore objects, built from the same params
ConstructTwin ==
    /\ twin = None
    /\ twin' = [ battery |-> Battery__init__(p), h2 |-> HydrogenStore__init__(p),
                 logs |-> <<>> ]
    /\ UNCHANGED <<p, battery, h2, logs, calls, phase, annual_balance, kpi, df, ops>>

\* run() of the second simulator: one pass of its loop, on the same rows
RunHourTwin ==
    /\ twin # None
    /\ Len(twin.logs) < Len(df)
    /\ \E r \in {Dispatch(p, twin.battery, twin.h2, df[Len(twin.logs) + 1])} :
           twin' = [ battery |-> r.battery, h2 |-> r.h2,
                     logs |-> Append(twin.logs, r.log) ]
    /\ UNCHANGED <<p, battery, h2, logs, calls, phase, annual_balance, kpi, df, ops>>

\* The device operations called on their own, one call per step; ops keeps
\* the request, the stored energy before and after, and what the call returned
OpRecord(op, req, pre, post, ret, heat) ==
    [op |-> op, req |-> req, pre |-> pre, post |-> post, ret |-> ret, heat |-> heat]

CallCharge(req) ==
    /\ phase = "constructed"
    /\ Len(ops) < MaxOps
    /\ \E r \in {charge(battery, req, dt)} :
           /\ battery' = r.self
           /\ ops' = Append(ops, OpRecord("charge", req, battery.soc, r.self.soc,
                                          r.ret, Zero))
    /\ UNCHANGED <<p, h2, logs, calls, phase, annual_balance, kpi, df, twin>>

CallDischarge(req) ==
    /\ phase = "constructed"
    /\ Len(ops) < MaxOps
    /\ \E r \in {discharge(battery, req, dt)} :
           /\ battery' = r.self
           /\ ops' = Append(ops, OpRecord("discharge", req, battery.soc, r.self.soc,
                                          r.ret, Zero))
    /\ UNCHANGED <<p, h2, logs, calls, phase, annual_balance, kpi, df, twin>>

CallElectrolyse(req) ==
    /\ phase = "constructed"
    /\ Len(ops) < MaxOps
    /\ \E r \in {electrolyse(h2, req, dt)} :
           /\ h2' = r.self
           /\ ops' = Append(ops, OpRecord("electrolyse", req, h2.h2, r.self.h2,
                                          r.ret, Zero))
    /\ UNCHANGED <<p, battery, logs, calls, phase, annual_balance, kpi, df, twin>>

CallFuelCell(req) ==
    /\ phase = "constructed"
    /\ Len(ops) < MaxOps
    /\ \E r \in {fuel_cell(h2, req, dt)} :
           /\ h2' = r.self
           /\ ops' = Append(ops, OpRecord("fuel_cell", req, h2.h2, r.self.h2,
                                          r.p_ac, r.p_heat))
    /\ UNCHANGED <<p, battery, logs, calls, phase, annual_balance, kpi, df, twin>>

Next ==
    \/ Construct
    \/ \E row \in Rows : RunHour(row)
    \/ \E row \in Rows : RunHourRaises(row)
    \/ WrapUp

Spec == Init /\ [][Next]_vars

SpecAny == InitAny /\ [][Next]_vars

\* Two simulators on one configuration and one sequence of rows
TwinParams == {sp \in ValidParams : sp.soc_bat_init = Q(1, 2)}

TwinRows ==
    { Row(Q(10, 1), Q(2, 1), Zero, Zero),
      Row(Zero, Q(5, 1), Zero, Zero),
      Row(Zero, Q(30, 1), Zero, Zero),
      Row(Q(40, 1), Zero, Zero, Zero) }

InitTwin == InitWith(TwinParams)

NextTwin ==
    \/ Construct
    \/ \E row \in TwinRows : RunHour(row)
    \/ ConstructTwin
    \/ RunHourTwin

SpecTwin == InitTwin /\ [][NextTwin]_vars

\* The devices on their own: every start level, every request
DeviceParams ==
    { [sp EXCEPT !.soc_bat_init = f, !.h2_init_kwh = Mul(f, sp.h2_capacity_kwh)] :
        sp \in { BaseParams,
                 [BaseParams EXCEPT !.eta_bat_roundtrip = Q(1, 4),
                                    !.eta_electrolyser = Q(1, 2),
                                    !.eta_fuel_cell = Q(1, 2),
                                    !.limits.p_fuel_cell = Q(2, 1)] },
        f \in {Q(0, 1), Q(1, 4), Q(1, 1)} }

Requests == {Q(0, 1), Q(1, 2), Q(1, 1), Q(2, 1), Q(4, 1), Q(8, 1), Q(30, 1)}

InitDevice == InitWith(DeviceParams)

NextDevice ==
    \/ Construct
    \/ \E req \in Requests : CallCharge(req)
    \/ \E req \in Requests : CallDischarge(req)
    \/ \E req \in Requests : CallElectrolyse(req)
    \/ \E req \in Requests : CallFuelCell(req)

SpecDevice == InitDevice /\ [][NextDevice]_vars

\* ------------------------------------------------------------------------
\* Properties
\* ------------------------------------------------------------------------
Hours == 1..Len(logs)

\* State the battery / hydrogen store is in when hour i starts
PreSoc(i) == IF i = 1 THEN Battery__init__(p).soc ELSE logs[i - 1].soc_bat

PreH2(i) == IF i = 1 THEN HydrogenStore__init__(p).h2 ELSE logs[i - 1].h2_store

Pos(x) == Gt(x, Zero)

AbsQ(x) == IF Lt(x, Zero) THEN Neg(x) ELSE x

\* C1: in every logged hour, pv_after_inverter + grid_import + battery
\* discharge + fuel cell equals total_load + grid_export + battery-charge AC
\* draw + electrolyser AC draw within EPS, the battery-charge AC draw being the
\* energy added to the battery divided by the charge efficiency and dt.
C1_Conservation ==
    \A i \in Hours :
        LET r == logs[i]
            bat_ac == Div(Div(r.p_bat_charge, battery.eta_c), dt)
            lhs == Add(Add(r.pv_ac, r.p_grid_import), Add(r.p_bat_discharge, r.p_fc))
            rhs == Add(Add(r.load, r.p_grid_export), Add(bat_ac, r.p_elec))
        IN  Le(AbsQ(Sub(lhs, rhs)), EPS)

\* C2: from a configuration with initial states in range, the battery state
\* of charge stays in [0, capacity] and the hydrogen level in [0, capacity],
\* in the devices and in every logged soc_bat / h2_store value.
C2_Bounds ==
    phase # "new" =>
        /\ Ge(battery.soc, Zero) /\ Le(battery.soc, battery.cap)
        /\ Ge(h2.h2, Zero) /\ Le(h2.h2, h2.cap)
        /\ \A i \in Hours :
              /\ Ge(logs[i].soc_bat, Zero) /\ Le(logs[i].soc_bat, battery.cap)
              /\ Ge(logs[i].h2_store, Zero) /\ Le(logs[i].h2_store, h2.cap)

C2_Witness ==
    /\ \E i \in Hours : Pos(logs[i].p_bat_charge) /\ logs[i].soc_bat = battery.cap
                        /\ Lt(logs[i].p_bat_charge, logs[i].net_before)
    /\ \E i \in Hours : Pos(logs[i].p_fc) /\ logs[i].h2_store = Zero
    /\ \E i \in Hours : Pos(logs[i].p_bat_discharge)

\* C3: every hourly log record has p_grid_export, p_grid_import,
\* p_bat_charge, p_bat_discharge, p_elec, p_fc and heat_from_fc all >= 0.
C3_NonNegative ==
    \A i \in Hours :
        /\ Ge(logs[i].p_grid_export, Zero) /\ Ge(logs[i].p_grid_import, Zero)
        /\ Ge(logs[i].p_bat_charge, Zero) /\ Ge(logs[i].p_bat_discharge, Zero)
        /\ Ge(logs[i].p_elec, Zero) /\ Ge(logs[i].p_fc, Zero)
        /\ Ge(logs[i].heat_from_fc, Zero)

C3_Witness ==
    /\ \E i \in Hours : Pos(logs[i].p_fc) /\ Pos(logs[i].heat_from_fc)
                        /\ Pos(logs[i].p_grid_import)
    /\ \E i \in Hours : Pos(logs[i].p_elec) /\ Pos(logs[i].p_grid_export)

\* C4: in every hour battery charge and discharge are never both > 0, and
\* electrolyser and fuel cell are never both > 0; each device gets at most one
\* of its two operations called per hour.
C4_MutualExclusion ==
    /\ \A i \in Hours :
          /\ ~(Pos(logs[i].p_bat_charge) /\ Pos(logs[i].p_bat_discharge))
          /\ ~(Pos(logs[i].p_elec) /\ Pos(logs[i].p_fc))
    /\ Cardinality({k \in DOMAIN calls : calls[k] \in {"charge", "discharge"}}) <= 1
    /\ Cardinality({k \in DOMAIN calls : calls[k] \in {"electrolyse", "fuel_cell"}}) <= 1

C4_Witness ==
    /\ \E i \in Hours : Pos(logs[i].p_bat_charge) /\ Pos(logs[i].p_elec)
    /\ \E i \in Hours : Pos(logs[i].p_bat_discharge) /\ Pos(logs[i].p_fc)
    /\ Len(calls) = 2

\* C5: in every surplus hour the electrolyser consumes power only if the
\* battery hit its charge power limit or reached full capacity, and grid
\* export is > 0 only if in addition the electrolyser hit its power limit or
\* the tank reached full capacity.
C5_SurplusPriority ==
    \A i \in Hours :
        LET r == logs[i]
            batLimited == \/ Ge(r.net_before, battery.p_charge_max)
                          \/ r.soc_bat = battery.cap
            elecLimited == \/ Ge(Sub(r.net_before, r.p_bat_charge), h2.p_elec_max)
                           \/ r.h2_store = h2.cap
        IN  Ge(r.net_before, Zero) =>
              /\ Pos(r.p_elec) => batLimited
              /\ Pos(r.p_grid_export) => batLimited /\ elecLimited

\* C6: in every deficit hour the fuel cell delivers power only if the battery
\* hit its discharge limit or ran empty and the hydrogen level was > EPS
\* before; grid import is > 0 only if the battery fell short and the fuel
\* cell was at its limit, the tank ran empty or the level was <= EPS.
C6_DeficitPriority ==
    \A i \in Hours :
        LET r == logs[i]
            deficit == Neg(r.net_before)
            batShort == \/ Gt(deficit, battery.p_discharge_max)
                        \/ r.soc_bat = Zero
            fcShort == \/ Ge(Sub(deficit, r.p_bat_discharge), h2.p_fc_max)
                       \/ r.h2_store = Zero
                       \/ Le(PreH2(i), EPS)
        IN  Lt(r.net_before, Zero) =>
              /\ Pos(r.p_fc) => batShort /\ Gt(PreH2(i), EPS)
              /\ Pos(r.p_grid_import) => batShort /\ fcShort

C6_Witness ==
    /\ \E i \in Hours : Pos(logs[i].p_fc) /\ Pos(logs[i].p_grid_import)
                        /\ Pos(logs[i].p_bat_discharge)
    /\ \E i \in Hours : Pos(logs[i].p_bat_discharge) /\ logs[i].p_fc = Zero
                        /\ logs[i].p_grid_import = Zero /\ Pos(logs[i].h2_store)
                        /\ battery.eta_d # Q(1, 1)

\* The documented configuration domain
ValidConfig(sp) ==
    /\ \A f \in {"eta_inv", "eta_bat_roundtrip", "eta_electrolyser", "eta_fuel_cell"} :
          Pos(sp[f]) /\ Le(sp[f], Q(1, 1))
    /\ Ge(sp.battery_capacity_kwh, Zero) /\ Ge(sp.h2_capacity_kwh, Zero)
    /\ \A f \in DOMAIN sp.limits : Ge(sp.limits[f], Zero)
    /\ Ge(sp.soc_bat_init, Zero) /\ Le(sp.soc_bat_init, Q(1, 1))
    /\ Ge(sp.h2_init_kwh, Zero) /\ Le(sp.h2_init_kwh, sp.h2_capacity_kwh)

\* C7: construction fails for a configuration with a non-positive efficiency,
\* a negative capacity or limit, or an out-of-range initial state, so no
\* simulator is ever constructed and no run started from one.
C7_InvalidConfigRejected == phase # "new" => ValidConfig(p)

\* C8: when a surplus fills the battery and then the tank to capacity and
\* leaves a residual of 0.001 kW, grid_export is reported 0 with both stores
\* at capacity; a residual within the tolerance is reported as 0 and the
\* storage updates of the hour are kept.
C8_ScenarioD ==
    \A i \in Hours :
        LET r == logs[i]
            residual == Sub(Sub(r.net_before, r.p_bat_charge), r.p_elec)
        IN  /\ ( /\ Lt(PreSoc(i), battery.cap) /\ r.soc_bat = battery.cap
                 /\ Lt(PreH2(i), h2.cap) /\ r.h2_store = h2.cap
                 /\ residual = Q(1, 1000) )
               => r.p_grid_export = Zero
            /\ (Ge(r.net_before, Zero) /\ Le(residual, EPS))
               => /\ r.p_grid_export = Zero
                  /\ r.soc_bat = Add(PreSoc(i), Mul(r.p_bat_charge, dt))
                  /\ r.h2_store = Add(PreH2(i), Mul(Mul(r.p_elec, h2.eta_elec), dt))

ScenarioA_Config ==
    /\ p.battery_capacity_kwh = Q(10, 1)
    /\ p.soc_bat_init = Zero
    /\ p.limits.p_bat_charge = Q(5, 1)
    /\ p.eta_bat_roundtrip = Q(1, 1)

\* C9 as stated: PV = 10, load = 2, empty 10 kWh battery, charge limit 5,
\* round-trip efficiency 1: after hour 1 the SOC is 5 and 3 kW are exported.
C9_ScenarioA_Stated ==
    ( /\ Len(logs) >= 1 /\ ScenarioA_Config
      /\ logs[1].pv_ac = Mul(Q(10, 1), p.eta_inv) /\ logs[1].load = Q(2, 1)
      /\ logs[1].heat_total_demand = Zero )
    => /\ logs[1].soc_bat = Q(5, 1)
       /\ logs[1].p_grid_export = Q(3, 1)

\* C9 amended: with PV after the inverter = 10, load = 2 and the same
\* battery, after hour 1 the SOC is 5 (charge clamped to the 5 kW limit) and
\* the remaining 3 kW go to the electrolyser first and the rest to the grid:
\* p_elec + p_grid_export = 3 within EPS, and p_grid_export = 3 when the
\* electrolyser takes nothing.
C9_ScenarioA ==
    ( /\ Len(logs) >= 1 /\ ScenarioA_Config
      /\ logs[1].pv_ac = Q(10, 1) /\ logs[1].load = Q(2, 1) )
    => /\ logs[1].soc_bat = Q(5, 1)
       /\ logs[1].p_bat_charge = Q(5, 1)
       /\ Le(AbsQ(Sub(Add(logs[1].p_elec, logs[1].p_grid_export), Q(3, 1))), EPS)
       /\ logs[1].p_elec = Zero => logs[1].p_grid_export = Q(3, 1)

C9_Witness ==
    /\ Len(logs) >= 1 /\ ScenarioA_Config
    /\ logs[1].pv_ac = Q(10, 1) /\ logs[1].load = Q(2, 1)
    /\ logs[1].p_elec = Zero /\ logs[1].p_grid_export = Q(3, 1)

ScenarioB_Hour(i) ==
    /\ Lt(logs[i].net_before, Zero)
    /\ PreSoc(i) = Zero
    /\ PreH2(i) = Zero

\* C10 as stated: in any deficit hour starting with SOC 0 and hydrogen 0 the
\* whole deficit is imported, discharge, fuel cell and waste heat are 0 and
\* both stores stay at 0.
C10_ScenarioB_Stated ==
    \A i \in Hours :
        ScenarioB_Hour(i) =>
            /\ logs[i].p_grid_import = Neg(logs[i].net_before)
            /\ logs[i].p_bat_discharge = Zero /\ logs[i].p_fc = Zero
            /\ logs[i].heat_from_fc = Zero
            /\ logs[i].soc_bat = Zero /\ logs[i].h2_store = Zero

\* C10 amended: in such an hour the whole deficit is imported when it exceeds
\* EPS and grid_import is 0 when the deficit is at most EPS; discharge, fuel
\* cell and waste heat are 0 and both stores stay at 0.
C10_ScenarioB ==
    \A i \in Hours :
        ScenarioB_Hour(i) =>
            /\ logs[i].p_grid_import =
                  IF Gt(Neg(logs[i].net_before), EPS) THEN Neg(logs[i].net_before)
                                                      ELSE Zero
            /\ logs[i].p_bat_discharge = Zero /\ logs[i].p_fc = Zero
            /\ logs[i].heat_from_fc = Zero
            /\ logs[i].soc_bat = Zero /\ logs[i].h2_store = Zero

C10_Witness ==
    \E i \in Hours :
        /\ ScenarioB_Hour(i)
        /\ battery.cap = Q(10, 1)
        /\ logs[i].pv_ac = Zero /\ logs[i].load = Q(5, 1)
        /\ logs[i].p_grid_import = Q(5, 1)

\* C11: every logged hour uses the effective COP max(source COP, 0.1): the
\* heat-pump draw is (space_heat + dhw) / that COP, so a source COP of 0 or
\* at most 0.1 gives heat * 10; every row with its columns present yields a
\* log record and the run does not stop on it.
C11_CopFloor ==
    /\ \A i \in Hours :
          LET cop == df[i][p.heat_pump_type]
              heat == Add(df[i].Varmeforbrug, df[i].dhw)
          IN  /\ logs[i].heat_total_demand = heat
              /\ Le(cop, Q(1, 10)) => logs[i].hp_electricity = Mul(heat, Q(10, 1))
              /\ Gt(cop, Q(1, 10)) => Mul(logs[i].hp_electricity, cop) = heat
    /\ \A i \in 1..Len(df) : ~RaisesKeyError(p, df[i]) => i <= Len(logs)

C11_Witness ==
    /\ \E i \in Hours : /\ df[i][p.heat_pump_type] = Zero
                        /\ logs[i].hp_electricity = Q(20, 1)
    /\ \E i \in Hours : /\ Lt(df[i][p.heat_pump_type], Zero)
                        /\ logs[i].hp_electricity = Q(1, 1)

C12_SameRun ==
    (twin # None /\ phase = "constructed") =>
        /\ \A i \in 1..Len(twin.logs) : twin.logs[i] = logs[i]
        /\ Len(twin.logs) = Len(logs) => twin.battery = battery /\ twin.h2 = h2

C13_RoundTrip ==
    phase = "constructed" =>
        /\ Mul(battery.eta_c, battery.eta_c) = p.eta_bat_roundtrip
        /\ battery.eta_d = battery.eta_c
        /\ \A i \in 1..(Len(ops) - 1) :
              ( /\ ops[i].op = "charge" /\ ops[i + 1].op = "discharge"
                /\ Pos(ops[i].req)
                /\ Le(ops[i].req, battery.p_charge_max)
                /\ Le(Mul(Mul(ops[i].req, dt), battery.eta_c),
                      Sub(battery.cap, ops[i].pre))
                /\ Le(ops[i + 1].req, battery.p_discharge_max)
                /\ ops[i + 1].post = ops[i].pre
                /\ ops[i + 1].ret = ops[i + 1].req )
              => Mul(ops[i + 1].ret, dt)
                   = Mul(Mul(ops[i].ret, dt), p.eta_bat_roundtrip)

\* C17: for a battery with 0 <= soc <= capacity and a request >= 0, charge
\* returns r with 0 <= r <= min(request, limit) and raises soc by
\* min(min(request, limit) * dt * eta_c, capacity - soc); discharge returns r
\* with 0 <= r <= min(request, limit) and r * dt <= soc * eta_d and lowers soc
\* by exactly r * dt / eta_d.
C17_BatteryOps ==
    \A i \in 1..Len(ops) :
        LET o == ops[i] IN
        /\ o.op = "charge" =>
              /\ Ge(o.ret, Zero)
              /\ Le(o.ret, o.req) /\ Le(o.ret, battery.p_charge_max)
              /\ Sub(o.post, o.pre) =
                    min(Mul(Mul(min(o.req, battery.p_charge_max), dt), battery.eta_c),
                        Sub(battery.cap, o.pre))
        /\ o.op = "discharge" =>
              /\ Ge(o.ret, Zero)
              /\ Le(o.ret, o.req) /\ Le(o.ret, battery.p_discharge_max)
              /\ Le(Mul(o.ret, dt), Mul(o.pre, battery.eta_d))
              /\ Sub(o.pre, o.post) = Div(Mul(o.ret, dt), battery.eta_d)

C17_Witness ==
    /\ \E i \in 1..Len(ops) :
          /\ ops[i].op = "charge" /\ Gt(ops[i].req, battery.p_charge_max)
          /\ Pos(ops[i].ret) /\ Lt(ops[i].post, battery.cap)
    /\ \E i \in 1..Len(ops) :
          /\ ops[i].op = "discharge" /\ Pos(ops[i].ret)
          /\ Lt(ops[i].ret, ops[i].req) /\ Lt(ops[i].req, battery.p_discharge_max)
          /\ ops[i].post = Zero
    /\ battery.eta_d # Q(1, 1)

\* C18: for a hydrogen store and a request >= 0, electrolyse returns r with
\* 0 <= r <= min(request, limit), and the hydrogen level rises by exactly
\* r * electrolyser efficiency * dt, also when clamped by the tank headroom.
C18_Electrolyse ==
    \A i \in 1..Len(ops) :
        LET o == ops[i] IN
        o.op = "electrolyse" =>
            /\ Ge(o.ret, Zero)
            /\ Le(o.ret, o.req) /\ Le(o.ret, h2.p_elec_max)
            /\ Sub(o.post, o.pre) = Mul(Mul(o.ret, h2.eta_elec), dt)

C18_Witness ==
    \E i \in 1..Len(ops) :
        /\ ops[i].op = "electrolyse"
        /\ Pos(ops[i].ret) /\ Lt(ops[i].ret, ops[i].req)
        /\ Lt(ops[i].ret, h2.p_elec_max)
        /\ ops[i].post = h2.cap
        /\ h2.eta_elec # Q(1, 1)

\* C19: for a hydrogen store and a request >= 0, fuel_cell returns
\* (delivered, waste_heat) with 0 <= delivered <= min(request, limit),
\* delivered * dt = hydrogen consumed * efficiency, hydrogen consumed <= level
\* before, waste_heat = (consumed - delivered * dt) / dt >= 0, and the level
\* falls by exactly (delivered + waste_heat) * dt.
C19_FuelCell ==
    \A i \in 1..Len(ops) :
        LET o == ops[i]
            consumed == Sub(o.pre, o.post)
        IN  o.op = "fuel_cell" =>
            /\ Ge(o.ret, Zero)
            /\ Le(o.ret, o.req) /\ Le(o.ret, h2.p_fc_max)
            /\ Mul(o.ret, dt) = Mul(consumed, h2.eta_fc)
            /\ Le(consumed, o.pre)
            /\ o.heat = Div(Sub(consumed, Mul(o.ret, dt)), dt)
            /\ Ge(o.heat, Zero)
            /\ consumed = Mul(Add(o.ret, o.heat), dt)

C19_Witness ==
    \E i \in 1..Len(ops) :
        /\ ops[i].op = "fuel_cell" /\ Pos(ops[i].ret) /\ Pos(ops[i].heat)
        /\ ops[i].post = Zero /\ Lt(ops[i].ret, h2.p_fc_max)
        /\ Gt(ops[i].req, h2.p_fc_max)

\* C14: when a row's computation raises, run stops at that row: no log record
\* is appended for it (one record of all 15 columns per completed hour),
\* battery SOC and hydrogen level are left as the last completed hour left
\* them, and no later row is processed.
C14_AbortOnFailedRow ==
    /\ [] ( /\ \A i \in 1..Len(df) :
                  RaisesKeyError(p, df[i]) =>
                      i = Len(df) /\ phase = "raised" /\ Len(logs) = i - 1
            /\ phase = "raised" =>
                  /\ RaisesKeyError(p, df[Len(df)])
                  /\ battery.soc = PreSoc(Len(logs) + 1)
                  /\ h2.h2 = PreH2(Len(logs) + 1)
            /\ \A i \in Hours : DOMAIN logs[i] = LogColumns )
    /\ [][ /\ (phase' = "raised" /\ phase # "raised") =>
                  battery' = battery /\ h2' = h2 /\ logs' = logs
           /\ phase # "raised" ]_vars

C14_Witness ==
    /\ phase = "raised"
    /\ Len(logs) >= 2
    /\ battery.soc # Battery__init__(p).soc
    /\ h2.h2 # HydrogenStore__init__(p).h2

RECURSIVE NetExportUpTo(_)
NetExportUpTo(k) ==
    IF k = 0 THEN Zero
    ELSE Add(NetExportUpTo(k - 1),
             Sub(logs[k].p_grid_export, logs[k].p_grid_import))

\* C15: after the last hour annual_balance is the sum of the logged
\* grid_export minus the sum of the logged grid_import; it is classified
\* zero-energy exactly when |annual_balance| <= 1e-2, else surplus when > 0
\* and deficit when < 0; computing it changes neither the log nor the devices.
C15_AnnualKpi ==
    /\ [] ( phase = "done" =>
              /\ annual_balance = NetExportUpTo(Len(logs))
              /\ kpi = "Zero-energy" <=> Le(AbsQ(annual_balance), Q(1, 100))
              /\ kpi = "Surplus" <=> Gt(annual_balance, Q(1, 100))
              /\ kpi = "Deficit" <=> Lt(annual_balance, Q(-1, 100)) )
    /\ [][ phase' = "done" => logs' = logs /\ battery' = battery /\ h2' = h2 ]_vars

C15_Witness ==
    /\ phase = "done"
    /\ kpi = "Zero-energy"
    /\ Pos(annual_balance)
    /\ \E i \in Hours : Pos(logs[i].p_grid_export)

\* One hour of the same dispatch with the tolerance set to 0
Eps0Hour(st, net_kw) ==
    IF Ge(net_kw, Zero)
    THEN LET c == charge(st.battery, net_kw, dt)
             rem == Sub(net_kw, c.ret)
         IN  [ battery |-> c.self,
               h2 |-> IF Gt(rem, Zero) THEN electrolyse(st.h2, rem, dt).self
                                       ELSE st.h2 ]
    ELSE LET d == discharge(st.battery, Neg(net_kw), dt)
             rem == Sub(Neg(net_kw), d.ret)
         IN  [ battery |-> d.self,
               h2 |-> IF Gt(rem, Zero) /\ Gt(st.h2.h2, Zero)
                          THEN fuel_cell(st.h2, rem, dt).self
                          ELSE st.h2 ]

\* The device states after each of the first k logged hours when the same
\* net powers are dispatched with the tolerance set to 0
RECURSIVE Eps0Traj(_)
Eps0Traj(k) ==
    IF k = 0 THEN <<>>
    ELSE LET t == Eps0Traj(k - 1)
             prev == IF k = 1 THEN [battery |-> Battery__init__(p),
                                    h2 |-> HydrogenStore__init__(p)]
                              ELSE t[k - 1]
         IN  Append(t, Eps0Hour(prev, logs[k].net_before))

\* An hour in which the tolerance keeps the electrolyser or the fuel cell from
\* being called although a positive remainder is left after the battery
EpsGated(i) ==
    IF Ge(logs[i].net_before, Zero)
    THEN LET rem == Sub(logs[i].net_before, logs[i].p_bat_charge)
         IN  Gt(rem, Zero) /\ Le(rem, EPS)
    ELSE LET rem == Sub(Neg(logs[i].net_before), logs[i].p_bat_discharge)
         IN  /\ Gt(rem, Zero) /\ Gt(PreH2(i), Zero)
             /\ Le(rem, EPS) \/ Le(PreH2(i), EPS)

\* C16 as stated: the SOC and hydrogen-level trajectories of a run equal
\* those of the same dispatch run with tolerance 0, for every input sequence.
C16_EpsReportingOnly_Stated ==
    phase \in {"done", "raised"} =>
    \E t \in {Eps0Traj(Len(logs))} :
        \A k \in Hours :
            /\ logs[k].soc_bat = t[k].battery.soc
            /\ logs[k].h2_store = t[k].h2.h2

\* C16 amended: the SOC trajectory of a run equals that of the run with tolerance 0;
\* the hydrogen-level trajectory does so up to the first hour in which the
\* tolerance keeps the electrolyser or fuel cell from being called; the
\* storage updates of an hour are kept whatever grid flow is reported.
C16_EpsReportingOnly ==
    phase \in {"done", "raised"} =>
    \E t \in {Eps0Traj(Len(logs))} :
      \A k \in Hours :
        /\ logs[k].soc_bat = t[k].battery.soc
        /\ (\A j \in 1..k : ~EpsGated(j)) => logs[k].h2_store = t[k].h2.h2
        /\ logs[k].soc_bat =
              Sub(Add(PreSoc(k), Mul(logs[k].p_bat_charge, dt)),
                  Div(Mul(logs[k].p_bat_discharge, dt), battery.eta_d))
        /\ logs[k].h2_store =
              Sub(Add(PreH2(k), Mul(Mul(logs[k].p_elec, h2.eta_elec), dt)),
                  Div(Mul(logs[k].p_fc, dt), h2.eta_fc))

C16_Witness ==
    /\ phase = "done"
    /\ \E k \in Hours : /\ \A j \in 1..k : ~EpsGated(j)
                        /\ Pos(logs[k].p_elec)
                        /\ logs[k].p_grid_export = Zero
    /\ \E k \in Hours : /\ EpsGated(k)
                        /\ Pos(logs[k].p_bat_charge)
                        /\ logs[k].p_grid_export = Zero

\* C20: after k rows the log holds k records of all 15 columns, in row order;
\* a pass of the loop appends one record, computed from its own row and the
\* device states the pass before left, and changes no earlier record; the
\* last soc_bat / h2_store are the device states the next hour starts from.
C20_AppendOnlyLog ==
    /\ [] ( /\ Len(logs) = Len(df) - (IF phase = "raised" THEN 1 ELSE 0)
            /\ Cardinality(LogColumns) = 15
            /\ \A i \in Hours : DOMAIN logs[i] = LogColumns
            /\ Len(logs) > 0 =>
                  /\ battery.soc = logs[Len(logs)].soc_bat
                  /\ h2.h2 = logs[Len(logs)].h2_store )
    /\ [][ /\ Len(logs') \in {Len(logs), Len(logs) + 1}
           /\ \A i \in Hours : logs'[i] = logs[i]
           /\ \A i \in 1..Len(df) : df'[i] = df[i]
           /\ Len(logs') = Len(logs) + 1 =>
                  /\ Len(df') = Len(logs')
                  /\ logs'[Len(logs')] = Dispatch(p, battery, h2, df'[Len(df')]).log
                  /\ battery'.soc = logs'[Len(logs')].soc_bat
                  /\ h2'.h2 = logs'[Len(logs')].h2_store ]_vars

C20_Witness ==
    /\ Len(logs) >= 2
    /\ logs[1] # logs[2]
    /\ logs[2].soc_bat # logs[1].soc_bat
    /\ logs[1].soc_bat # Battery__init__(p).soc
    /\ logs[2].h2_store # logs[1].h2_store

\* C21: in a surplus hour (net >= 0) neither the battery SOC nor the hydrogen
\* level decreases and grid import is 0; in a deficit hour (net < 0) neither
\* increases and grid export is 0; in an hour with net exactly 0 both stores
\* are unchanged and battery charge and discharge, electrolyser, fuel cell,
\* waste heat, grid export and grid import are all 0.
C21_StorageDirection ==
    \A i \in Hours :
        /\ Ge(logs[i].net_before, Zero) =>
              /\ Ge(logs[i].soc_bat, PreSoc(i))
              /\ Ge(logs[i].h2_store, PreH2(i))
              /\ logs[i].p_grid_import = Zero
        /\ Lt(logs[i].net_before, Zero) =>
              /\ Le(logs[i].soc_bat, PreSoc(i))
              /\ Le(logs[i].h2_store, PreH2(i))
              /\ logs[i].p_grid_export = Zero
        /\ logs[i].net_before = Zero =>
              /\ logs[i].soc_bat = PreSoc(i)
              /\ logs[i].h2_store = PreH2(i)
              /\ \A f \in { "p_bat_charge", "p_bat_discharge", "p_elec", "p_fc",
                            "heat_from_fc", "p_grid_export", "p_grid_import" } :
                    logs[i][f] = Zero

C21_Witness ==
    /\ Len(logs) >= 3
    /\ Pos(logs[1].net_before)
    /\ Gt(logs[1].soc_bat, PreSoc(1))
    /\ Gt(logs[1].h2_store, PreH2(1))
    /\ logs[2].net_before = Zero
    /\ Pos(logs[2].soc_bat)
    /\ Lt(logs[2].soc_bat, battery.cap)
    /\ Pos(logs[2].h2_store)
    /\ Lt(logs[3].net_before, Zero)
    /\ Lt(logs[3].soc_bat, PreSoc(3))
    /\ Lt(logs[3].h2_store, PreH2(3))

====
